---- MODULE Spec2Model ----
(***************************************************************************)
(* unpic-qcloud: the imageMogr2 query-string codec of src/index.ts.        *)
(*                                                                         *)
(* Strings are sequences of atoms.  An atom is either one character that   *)
(* the code inspects ("/", "|", "x", "!", "<", ">", "?", "#", "-", a       *)
(* decimal digit), one percent-escape ("%2F", "%7C", "%3C", "%3E", "%25"), *)
(* the atom "%" (a percent sign that starts no valid escape), or a run of  *)
(* other characters that the code only ever compares as a whole            *)
(* ("thumbnail", "imageMogr2", "webp", a host label, ...).                 *)
(*                                                                         *)
(* JavaScript values are records [t, n, s]: a number, a string, a boolean  *)
(* or undefined.  An object is a function from the names of its own        *)
(* properties to values.                                                   *)
(***************************************************************************)
EXTENDS Integers, Sequences, FiniteSets, TLC

VARIABLES
    src,               \* argument: the URL string
    operations,        \* argument: QCloudCosOperations
    options,           \* argument: QCloudCosOptions
    pipelineSegments,  \* argument of generate: foreign pipeline segments
    segment,           \* argument of parseImageMogr2
    call,              \* the exported function the caller invokes
    pc,                \* "call" before the function runs, "return" after
    ret,               \* what the function returned (or threw)
    cursor             \* parseImageMogr2's loop variable i (counted from 1)

vars == <<src, operations, options, pipelineSegments, segment, call, pc, ret, cursor>>

----------------------------------------------------------------------------
(* Bounds of the model.                                                    *)

\* numeric field values are 0 and the multiples 6, 12, ... up to 6 * MaxNum
MaxNum == 2
\* pipe-delimited segments of a query string
MaxSegs == 2
\* keyword groups of a segment handed to parseImageMogr2
MaxGroups == 2
\* properties of an operations object handed to buildImageMogr2
MaxFields == 2

----------------------------------------------------------------------------
(* JavaScript values.                                                      *)

Num(n) == [t |-> "number", n |-> n, s |-> <<>>]
Str(s) == [t |-> "string", n |-> 0, s |-> s]
Bool(b) == [t |-> "boolean", n |-> IF b THEN 1 ELSE 0, s |-> <<>>]
Undefined == [t |-> "undefined", n |-> 0, s |-> <<>>]
NaN == [t |-> "number", n |-> -1, s |-> <<"NaN">>]

EmptyObject == [k \in {} |-> Undefined]

\* o.k : a missing property reads as undefined
Get(o, k) == IF k \in DOMAIN o THEN o[k] ELSE Undefined

\* { ...a, ...b } : own properties of both, b's value wins, an own property
\* holding undefined included
Spread(a, b) ==
    [k \in (DOMAIN a) \cup (DOMAIN b) |-> IF k \in DOMAIN b THEN b[k] ELSE a[k]]

\* o.k = v
Assign(o, k, v) == [j \in (DOMAIN o) \cup {k} |-> IF j = k THEN v ELSE o[j]]

\* if (v) ...
Truthy(v) ==
    CASE v.t = "number" -> (v.n # 0 \/ v.s # <<>>) /\ v # NaN
      [] v.t = "string" -> v.s # <<>>
      [] v.t = "boolean" -> v.n = 1
      [] OTHER -> FALSE

Digits == <<"0", "1", "2", "3", "4", "5", "6", "7", "8", "9">>
IsDigit(a) == \E i \in 1..10 : Digits[i] = a
DigitVal(a) == (CHOOSE i \in 1..10 : Digits[i] = a) - 1

RECURSIVE NatToString(_)
NatToString(n) ==
    IF n < 10 THEN <<Digits[n + 1]>>
    ELSE NatToString(n \div 10) \o <<Digits[(n % 10) + 1]>>

\* `${v}` : a number prints in decimal, a string as itself
StringOf(v) ==
    CASE v = NaN -> <<"NaN">>
      [] v.t = "number" ->
            LET neg == v.n < 0 \/ (v.s # <<>> /\ v.s[1] = "-")
                fd == IF v.s # <<>> /\ v.s[1] = "-" THEN Tail(v.s) ELSE v.s
            IN  (IF neg THEN <<"-">> ELSE <<>>)
                \o NatToString(IF v.n < 0 THEN -v.n ELSE v.n)
                \o (IF fd = <<>> THEN <<>> ELSE <<".">> \o fd)
      [] v.t = "string" -> v.s
      [] v.t = "boolean" -> IF v.n = 1 THEN <<"true">> ELSE <<"false">>
      [] OTHER -> <<"undefined">>

AllDigits(s) == \A i \in 1..Len(s) : IsDigit(s[i])

RECURSIVE DigitsValue(_, _)
DigitsValue(s, base) ==
    IF s = <<>> THEN 0
    ELSE DigitsValue(SubSeq(s, 1, Len(s) - 1), base) * base + DigitVal(s[Len(s)])

RECURSIVE StripZeros(_)
\* the digits of a fraction without its trailing zeros
StripZeros(s) ==
    IF s # <<>> /\ s[Len(s)] = "0" THEN StripZeros(SubSeq(s, 1, Len(s) - 1)) ELSE s

\* a number with a fractional part: the integer part is in n, the digits of
\* the fraction in s (after a "-" when the number is negative and n is 0)
Fraction(neg, ip, fd) ==
    [t |-> "number", n |-> IF neg THEN 0 - ip ELSE ip,
     s |-> (IF neg /\ ip = 0 /\ fd # <<>> THEN <<"-">> ELSE <<>>) \o fd]

\* the value of an unsigned decimal literal (digits, ".", digits), or NaN
Decimal(neg, s) ==
    LET dots == {i \in 1..Len(s) : s[i] = "."}
        iDot == IF dots = {} THEN Len(s) + 1
                ELSE CHOOSE i \in dots : \A j \in dots : i <= j
        ip == SubSeq(s, 1, iDot - 1)
        fd == SubSeq(s, iDot + 1, Len(s))
    IN  IF AllDigits(ip) /\ AllDigits(fd) /\ (ip # <<>> \/ fd # <<>>)
        THEN Fraction(neg, DigitsValue(ip, 10), StripZeros(fd))
        ELSE NaN

\* Number(s) for a string s: the empty string is 0, a decimal literal with
\* an optional sign is its value, integer or fractional, 0x followed by
\* digits is read in base 16, anything else is NaN
StringToNumber(s) ==
    LET signed == Len(s) >= 2 /\ s[1] \in {"-", "+"}
    IN  CASE s = <<>> -> Num(0)
          [] Len(s) >= 3 /\ s[1] = "0" /\ s[2] = "x" /\ AllDigits(SubSeq(s, 3, Len(s))) ->
                Num(DigitsValue(SubSeq(s, 3, Len(s)), 16))
          [] OTHER -> Decimal(signed /\ s[1] = "-", IF signed THEN Tail(s) ELSE s)

\* Number(value): the argument is evaluated once, then converted
Number(value) == CHOOSE n \in {StringToNumber(s) : s \in {value}} : TRUE

----------------------------------------------------------------------------
(* String primitives.                                                      *)

RECURSIVE Join(_, _)
\* parts.join(sep)
Join(parts, sep) ==
    IF parts = <<>> THEN <<>>
    ELSE IF Len(parts) = 1 THEN parts[1]
    ELSE parts[1] \o <<sep>> \o Join(Tail(parts), sep)

RECURSIVE SplitFrom(_, _, _)
SplitFrom(s, sep, cur) ==
    IF s = <<>> THEN <<cur>>
    ELSE IF s[1] = sep THEN <<cur>> \o SplitFrom(Tail(s), sep, <<>>)
    ELSE SplitFrom(Tail(s), sep, Append(cur, s[1]))

\* s.split(sep) : "" splits into one empty string
Split(s, sep) == SplitFrom(s, sep, <<>>)

\* s.startsWith(p)
StartsWith(s, p) == Len(s) >= Len(p) /\ SubSeq(s, 1, Len(p)) = p

\* index of the first atom of s that is in set, or Len(s) + 1
FirstOf(s, set) ==
    IF \E i \in 1..Len(s) : s[i] \in set
    THEN CHOOSE i \in 1..Len(s) : s[i] \in set /\ \A j \in 1..(i - 1) : s[j] \notin set
    ELSE Len(s) + 1

----------------------------------------------------------------------------
(* buildImageMogr2                                                         *)

Tok(word) == <<word>>

\* a resize in which a dimension of 0 counts as missing
ResizePartZeroMissing(ops) ==
    LET hasWidth == Truthy(Get(ops, "width"))
        hasHeight == Truthy(Get(ops, "height"))
        w == IF hasWidth THEN StringOf(ops.width) ELSE <<>>
        h == IF hasHeight THEN StringOf(ops.height) ELSE <<>>
        suffix == IF Get(ops, "thumbnailMode") = Str(<<"force">>) THEN <<"!">>
                  ELSE IF Get(ops, "thumbnailMode") = Str(<<"shrinkOnly">>) THEN <<">">>
                  ELSE IF Get(ops, "thumbnailMode") = Str(<<"enlargeOnly">>) THEN <<"<">>
                  ELSE <<>>
    IN  IF ~(hasWidth \/ hasHeight) THEN <<>>
        ELSE IF Get(ops, "thumbnailMode") = Str(<<"cover">>)
             THEN << <<"crop", "/">> \o w \o <<"x">> \o h >>
             ELSE << <<"thumbnail", "/">> \o w \o <<"x">> \o h \o suffix >>

\* a resize that writes the token of the mode even without a dimension
ResizePartModeAlone(ops) ==
    LET w == IF Get(ops, "width") # Undefined THEN StringOf(ops.width) ELSE <<>>
        h == IF Get(ops, "height") # Undefined THEN StringOf(ops.height) ELSE <<>>
        mode == Get(ops, "thumbnailMode")
        wxh == w \o <<"x">> \o h
    IN  IF w = <<>> /\ h = <<>> /\ mode = Undefined THEN <<>>
        ELSE CASE mode = Str(<<"cover">>) -> << <<"crop", "/">> \o wxh >>
               [] mode = Str(<<"force">>) -> << <<"thumbnail", "/">> \o wxh \o <<"!">> >>
               [] mode = Str(<<"shrinkOnly">>) -> << <<"thumbnail", "/">> \o wxh \o <<">">> >>
               [] mode = Str(<<"enlargeOnly">>) -> << <<"thumbnail", "/">> \o wxh \o <<"<">> >>
               [] OTHER -> << <<"thumbnail", "/">> \o wxh >>

\* the resize / crop token, as a sequence of zero or one parts
ResizePart(ops) ==
    LET hasWidth == Get(ops, "width") # Undefined
        hasHeight == Get(ops, "height") # Undefined
        w == IF hasWidth THEN StringOf(ops.width) ELSE <<>>
        h == IF hasHeight THEN StringOf(ops.height) ELSE <<>>
        mode == IF Get(ops, "thumbnailMode") = Undefined THEN Str(Tok("fit"))
                ELSE ops.thumbnailMode
        wxh == w \o <<"x">> \o h
    IN  IF ~(hasWidth \/ hasHeight) THEN <<>>
        ELSE CASE mode = Str(Tok("cover")) -> << <<"crop", "/">> \o wxh >>
               [] mode = Str(Tok("force")) -> << <<"thumbnail", "/">> \o wxh \o <<"!">> >>
               [] mode = Str(Tok("shrinkOnly")) -> << <<"thumbnail", "/">> \o wxh \o <<">">> >>
               [] mode = Str(Tok("enlargeOnly")) -> << <<"thumbnail", "/">> \o wxh \o <<"<">> >>
               [] OTHER -> << <<"thumbnail", "/">> \o wxh >>

\* if (ops.k !== undefined && ops.k !== null) parts.push(`kw/${ops.k}`)
DefinedPart(ops, k, kw) ==
    IF Get(ops, k) # Undefined THEN << <<kw, "/">> \o StringOf(ops[k]) >> ELSE <<>>

\* if (ops.k) parts.push(`kw/${ops.k}`)
TruthyPart(ops, k, kw) ==
    IF Truthy(Get(ops, k)) THEN << <<kw, "/">> \o StringOf(ops[k]) >> ELSE <<>>

\* if (ops.k) parts.push(token)
FlagPart(ops, k, token) ==
    IF Truthy(Get(ops, k)) THEN <<token>> ELSE <<>>

\* a serializer that pushes quality before format
BuildPartsQualityFirst(ops) ==
    ResizePart(ops)
    \o DefinedPart(ops, "iradius", "iradius")
    \o DefinedPart(ops, "rradius", "rradius")
    \o FlagPart(ops, "autoOrient", <<"auto-orient">>)
    \o DefinedPart(ops, "rotate", "rotate")
    \o TruthyPart(ops, "flip", "flip")
    \o DefinedPart(ops, "quality", "quality")
    \o TruthyPart(ops, "format", "format")
    \o DefinedPart(ops, "rquality", "rquality")
    \o DefinedPart(ops, "lquality", "lquality")
    \o FlagPart(ops, "ignoreError", <<"ignore-error", "/", "1">>)

\* the parts array of buildImageMogr2, in push order
BuildParts(ops) ==
    ResizePart(ops)
    \o DefinedPart(ops, "iradius", "iradius")
    \o DefinedPart(ops, "rradius", "rradius")
    \o FlagPart(ops, "autoOrient", <<"auto-orient">>)
    \o DefinedPart(ops, "rotate", "rotate")
    \o TruthyPart(ops, "flip", "flip")
    \o TruthyPart(ops, "format", "format")
    \o DefinedPart(ops, "quality", "quality")
    \o DefinedPart(ops, "rquality", "rquality")
    \o DefinedPart(ops, "lquality", "lquality")
    \o FlagPart(ops, "ignoreError", <<"ignore-error", "/", "1">>)

\* parts.join("/") prefixed with "imageMogr2/", or "" when parts is empty
JoinParts(parts) ==
    IF parts = <<>> THEN <<>> ELSE <<"imageMogr2", "/">> \o Join(parts, "/")

buildImageMogr2(ops) == JoinParts(BuildParts(ops))

----------------------------------------------------------------------------
(* parseImageMogr2                                                         *)

\* number of leading digit atoms of s
RECURSIVE LeadingDigits(_)
LeadingDigits(s) ==
    IF s # <<>> /\ IsDigit(s[1]) THEN 1 + LeadingDigits(Tail(s)) ELSE 0

\* next.match(/^(\d*)x(\d*)/) : the two groups and what follows the match
MatchWxH(tok) ==
    LET nw == LeadingDigits(tok)
        afterX == SubSeq(tok, nw + 2, Len(tok))
        nh == LeadingDigits(afterX)
    IN  IF Len(tok) > nw /\ tok[nw + 1] = "x"
        THEN [ok |-> TRUE, w |-> SubSeq(tok, 1, nw), h |-> SubSeq(afterX, 1, nh),
              rest |-> SubSeq(afterX, nh + 1, Len(afterX))]
        ELSE [ok |-> FALSE, w |-> <<>>, h |-> <<>>, rest |-> <<>>]

\* if (m[1]) ops.width = Number(m[1]); if (m[2]) ops.height = Number(m[2])
SetDims(ops, m) ==
    LET o1 == IF m.w # <<>> THEN Assign(ops, "width", Number(m.w)) ELSE ops
    IN  IF m.h # <<>> THEN Assign(o1, "height", Number(m.h)) ELSE o1

\* the thumbnail branch: the anchored matches for "!", ">" and "<" first, then
\* the unanchored fit match
ParseThumbnail(ops, next) ==
    LET m == MatchWxH(next)
    IN  IF ~m.ok THEN ops
        ELSE IF m.rest = <<"!">> THEN Assign(SetDims(ops, m), "thumbnailMode", Str(Tok("force")))
        ELSE IF m.rest = <<">">> THEN Assign(SetDims(ops, m), "thumbnailMode", Str(Tok("shrinkOnly")))
        ELSE IF m.rest = <<"<">> THEN Assign(SetDims(ops, m), "thumbnailMode", Str(Tok("enlargeOnly")))
        ELSE SetDims(ops, m)

\* a crop branch that reads the dimensions and leaves the mode unset
ParseCropKeepsMode(ops, next) ==
    LET m == MatchWxH(next)
    IN  IF m.ok THEN SetDims(ops, m) ELSE ops

\* the crop branch
ParseCrop(ops, next) ==
    LET m == MatchWxH(next)
    IN  IF m.ok THEN Assign(SetDims(ops, m), "thumbnailMode", Str(Tok("cover"))) ELSE ops

\* const n = Number(next); if (!isNaN(n)) ops.k = n
ParseNumber(ops, k, next) ==
    IF Number(next) # NaN THEN Assign(ops, k, Number(next)) ELSE ops

\* a parser that reads quality like the other numeric arguments
ParseQualityNumberOnly(ops, next) == ParseNumber(ops, "quality", next)

\* ops.quality = isNaN(num) ? next : num
ParseQuality(ops, next) ==
    Assign(ops, "quality", IF Number(next) = NaN THEN Str(next) ELSE Number(next))

ParseFlip(ops, next) ==
    IF next = Tok("vertical") \/ next = Tok("horizontal")
    THEN Assign(ops, "flip", Str(next)) ELSE ops

NumberKeywords == {"iradius", "rradius", "rotate", "rquality", "lquality"}

\* a loop body in which a rejected argument is not consumed: the cursor
\* moves past it only when the keyword took its value
ScanStepRejectedStays(parts, i, ops) ==
    LET token == parts[i]
        hasNext == i + 1 <= Len(parts)
        next == IF hasNext THEN parts[i + 1] ELSE <<>>
        took(o) == IF o = ops THEN i + 1 ELSE i + 2
    IN  CASE token = Tok("thumbnail") /\ hasNext ->
                [ops |-> ParseThumbnail(ops, next), i |-> i + 2]
          [] token = Tok("crop") /\ hasNext ->
                [ops |-> ParseCrop(ops, next), i |-> i + 2]
          [] token = Tok("gravity") /\ hasNext ->
                [ops |-> ops, i |-> i + 2]
          [] Len(token) = 1 /\ token[1] \in NumberKeywords /\ hasNext ->
                [ops |-> ParseNumber(ops, token[1], next), i |-> i + 2]
          [] token = Tok("auto-orient") ->
                [ops |-> Assign(ops, "autoOrient", Bool(TRUE)), i |-> i + 1]
          [] token = Tok("flip") /\ hasNext ->
                [ops |-> ParseFlip(ops, next), i |-> took(ParseFlip(ops, next))]
          [] token = Tok("format") /\ hasNext ->
                [ops |-> Assign(ops, "format", Str(next)), i |-> i + 2]
          [] token = Tok("quality") /\ hasNext ->
                [ops |-> ParseQuality(ops, next), i |-> i + 2]
          [] token = Tok("ignore-error") ->
                [ops |-> Assign(ops, "ignoreError", Bool(TRUE)),
                 i |-> IF hasNext /\ next = <<"1">> THEN i + 2 ELSE i + 1]
          [] OTHER -> [ops |-> ops, i |-> i + 1]

\* a loop body in which ignore-error takes whatever token follows it
ScanStepIgnoreErrorTakesNext(parts, i, ops) ==
    LET token == parts[i]
        hasNext == i + 1 <= Len(parts)
        next == IF hasNext THEN parts[i + 1] ELSE <<>>
    IN  CASE token = Tok("thumbnail") /\ hasNext ->
                [ops |-> ParseThumbnail(ops, next), i |-> i + 2]
          [] token = Tok("crop") /\ hasNext ->
                [ops |-> ParseCrop(ops, next), i |-> i + 2]
          [] token = Tok("gravity") /\ hasNext ->
                [ops |-> ops, i |-> i + 2]
          [] Len(token) = 1 /\ token[1] \in NumberKeywords /\ hasNext ->
                [ops |-> ParseNumber(ops, token[1], next), i |-> i + 2]
          [] token = Tok("auto-orient") ->
                [ops |-> Assign(ops, "autoOrient", Bool(TRUE)), i |-> i + 1]
          [] token = Tok("flip") /\ hasNext ->
                [ops |-> ParseFlip(ops, next), i |-> i + 2]
          [] token = Tok("format") /\ hasNext ->
                [ops |-> Assign(ops, "format", Str(next)), i |-> i + 2]
          [] token = Tok("quality") /\ hasNext ->
                [ops |-> ParseQuality(ops, next), i |-> i + 2]
          [] token = Tok("ignore-error") ->
                [ops |-> Assign(ops, "ignoreError", Bool(TRUE)), i |-> i + 2]
          [] OTHER -> [ops |-> ops, i |-> i + 1]

\* a loop body that does not move past an unknown token
ScanStepUnknownStays(parts, i, ops) ==
    LET token == parts[i]
        hasNext == i + 1 <= Len(parts)
        next == IF hasNext THEN parts[i + 1] ELSE <<>>
    IN  CASE token = Tok("thumbnail") /\ hasNext ->
                [ops |-> ParseThumbnail(ops, next), i |-> i + 2]
          [] token = Tok("crop") /\ hasNext ->
                [ops |-> ParseCrop(ops, next), i |-> i + 2]
          [] token = Tok("gravity") /\ hasNext ->
                [ops |-> ops, i |-> i + 2]
          [] Len(token) = 1 /\ token[1] \in NumberKeywords /\ hasNext ->
                [ops |-> ParseNumber(ops, token[1], next), i |-> i + 2]
          [] token = Tok("auto-orient") ->
                [ops |-> Assign(ops, "autoOrient", Bool(TRUE)), i |-> i + 1]
          [] token = Tok("flip") /\ hasNext ->
                [ops |-> ParseFlip(ops, next), i |-> i + 2]
          [] token = Tok("format") /\ hasNext ->
                [ops |-> Assign(ops, "format", Str(next)), i |-> i + 2]
          [] token = Tok("quality") /\ hasNext ->
                [ops |-> ParseQuality(ops, next), i |-> i + 2]
          [] token = Tok("ignore-error") ->
                [ops |-> Assign(ops, "ignoreError", Bool(TRUE)),
                 i |-> IF hasNext /\ next = <<"1">> THEN i + 2 ELSE i + 1]
          [] OTHER -> [ops |-> ops, i |-> i]

\* one iteration of the for loop at index i (1-based): the new ops and the
\* index of the next iteration
ScanStep(parts, i, ops) ==
    LET token == parts[i]
        hasNext == i + 1 <= Len(parts)
        next == IF hasNext THEN parts[i + 1] ELSE <<>>
    IN  CASE token = Tok("thumbnail") /\ hasNext ->
                [ops |-> ParseThumbnail(ops, next), i |-> i + 2]
          [] token = Tok("crop") /\ hasNext ->
                [ops |-> ParseCrop(ops, next), i |-> i + 2]
          [] token = Tok("gravity") /\ hasNext ->
                [ops |-> ops, i |-> i + 2]
          [] Len(token) = 1 /\ token[1] \in NumberKeywords /\ hasNext ->
                [ops |-> ParseNumber(ops, token[1], next), i |-> i + 2]
          [] token = Tok("auto-orient") ->
                [ops |-> Assign(ops, "autoOrient", Bool(TRUE)), i |-> i + 1]
          [] token = Tok("flip") /\ hasNext ->
                [ops |-> ParseFlip(ops, next), i |-> i + 2]
          [] token = Tok("format") /\ hasNext ->
                [ops |-> Assign(ops, "format", Str(next)), i |-> i + 2]
          [] token = Tok("quality") /\ hasNext ->
                [ops |-> ParseQuality(ops, next), i |-> i + 2]
          [] token = Tok("ignore-error") ->
                [ops |-> Assign(ops, "ignoreError", Bool(TRUE)),
                 i |-> IF hasNext /\ next = <<"1">> THEN i + 2 ELSE i + 1]
          [] OTHER -> [ops |-> ops, i |-> i + 1]

RECURSIVE Scan(_, _, _)
\* a loop that stops after its first iteration
ScanFirstOnly(parts, i, ops) ==
    IF i > Len(parts) THEN ops ELSE ScanStep(parts, i, ops).ops

\* a loop in which a token that sets nothing takes the next token with it
ScanUnknownTakesNext(parts, i, ops) ==
    IF i > Len(parts) THEN ops
    ELSE LET r == ScanStep(parts, i, ops)
         IN  Scan(parts, IF r.ops = ops /\ r.i = i + 1 THEN i + 2 ELSE r.i, r.ops)

\* for (let i = 0; i < parts.length; i++) { ... }
Scan(parts, i, ops) ==
    IF i > Len(parts) THEN ops
    ELSE LET r == ScanStep(parts, i, ops) IN Scan(parts, r.i, r.ops)

\* segment.replace(/^imageMogr2\/?/, "")
StripPrefix(s) ==
    IF StartsWith(s, <<"imageMogr2", "/">>) THEN SubSeq(s, 3, Len(s))
    ELSE IF StartsWith(s, <<"imageMogr2">>) THEN Tail(s)
    ELSE s

parseImageMogr2(seg) ==
    LET stripped == StripPrefix(seg)
    IN  IF stripped = <<>> THEN EmptyObject
        ELSE Scan(Split(stripped, "/"), 1, EmptyObject)

----------------------------------------------------------------------------
(* URL primitives: new URL(s), decodeURIComponent.                         *)

\* new URL(s): a string parses when it starts with the scheme atom and names
\* a host; the query's "<" and ">" are percent-encoded by the parser, an empty
\* path reads as "/", an empty query gives an empty search
EncodeQueryAtom(a) == IF a = "<" THEN "%3C" ELSE IF a = ">" THEN "%3E" ELSE a

ParseURL(s) ==
    LET rest == IF s = <<>> THEN <<>> ELSE Tail(s)
        iHost == FirstOf(rest, {"/", "?", "#"})
        host == SubSeq(rest, 1, iHost - 1)
        afterHost == SubSeq(rest, iHost, Len(rest))
        iQ == FirstOf(afterHost, {"?", "#"})
        path == SubSeq(afterHost, 1, iQ - 1)
        afterPath == SubSeq(afterHost, iQ, Len(afterHost))
        iH == FirstOf(afterPath, {"#"})
        query == IF afterPath # <<>> /\ afterPath[1] = "?"
                 THEN SubSeq(afterPath, 2, iH - 1) ELSE <<>>
    IN  IF s # <<>> /\ s[1] = "https://" /\ host # <<>>
        THEN [ok |-> TRUE,
              hostname |-> host,
              origin |-> <<"https://">> \o host,
              pathname |-> IF path = <<>> THEN <<"/">> ELSE path,
              search |-> IF query = <<>> THEN <<>>
                         ELSE <<"?">> \o [i \in 1..Len(query) |-> EncodeQueryAtom(query[i])]]
        ELSE [ok |-> FALSE, hostname |-> <<>>, origin |-> <<>>, pathname |-> <<>>,
              search |-> <<>>]

\* s.slice(1)
Slice1(s) == IF s = <<>> THEN <<>> ELSE Tail(s)

DecodeAtom(a) ==
    CASE a = "%2F" -> "/"
      [] a = "%7C" -> "|"
      [] a = "%3C" -> "<"
      [] a = "%3E" -> ">"
      [] a = "%25" -> "%"
      [] OTHER -> a

\* decodeURIComponent(s): every escape is decoded once; a percent sign that
\* starts no valid escape makes it throw URIError
decodeURIComponent(s) ==
    IF \E i \in 1..Len(s) : s[i] = "%"
    THEN [ok |-> FALSE, s |-> <<>>]
    ELSE [ok |-> TRUE, s |-> [i \in 1..Len(s) |-> DecodeAtom(s[i])]]

----------------------------------------------------------------------------
(* isCosUrl                                                                *)

\* host labels that match [a-zA-Z0-9-]+-\d+ (bucket name, hyphen, appid)
BucketAppidLabels == {"b-1", "examplebucket-1250000000"}
\* host labels that match [a-z]+-[a-z0-9]+(?:-\d+)?
RegionLabels == {"ap-beijing", "ap-guangzhou", "ap-beijing-1"}

\* a pattern that accepts the cos endpoint only
COS_HOSTNAME_RE_CosOnly(hostname) ==
    LET labels == Split(hostname, ".")
    IN  /\ Len(labels) = 5
        /\ \A i \in 1..5 : Len(labels[i]) = 1
        /\ labels[1][1] \in BucketAppidLabels
        /\ labels[2][1] = "cos"
        /\ labels[3][1] \in RegionLabels
        /\ labels[4][1] = "myqcloud"
        /\ labels[5][1] = "com"

\* a pattern that accepts any service label in place of cos | pic
COS_HOSTNAME_RE_AnyService(hostname) ==
    LET labels == Split(hostname, ".")
    IN  /\ Len(labels) = 5
        /\ \A i \in 1..5 : Len(labels[i]) = 1
        /\ labels[1][1] \in BucketAppidLabels
        /\ labels[3][1] \in RegionLabels
        /\ labels[4][1] = "myqcloud"
        /\ labels[5][1] = "com"

\* COS_HOSTNAME_RE.test(hostname)
COS_HOSTNAME_RE(hostname) ==
    LET labels == Split(hostname, ".")
    IN  /\ Len(labels) = 5
        /\ \A i \in 1..5 : Len(labels[i]) = 1
        /\ labels[1][1] \in BucketAppidLabels
        /\ labels[2][1] \in {"cos", "pic"}
        /\ labels[3][1] \in RegionLabels
        /\ labels[4][1] = "myqcloud"
        /\ labels[5][1] = "com"

\* a matcher that accepts every URL that parses
isCosUrlAnyHost(url) == ParseURL(url).ok

\* try { new URL(url); test } catch { return false }
isCosUrl(url) ==
    LET u == ParseURL(url) IN u.ok /\ COS_HOSTNAME_RE(u.hostname)

----------------------------------------------------------------------------
(* extract                                                                 *)

Null ==
    [tag |-> "null", src |-> <<>>, operations |-> EmptyObject,
     options |-> EmptyObject, pipelineSegments |-> <<>>]
Thrown(e) ==
    [tag |-> "throw", src |-> <<e>>, operations |-> EmptyObject,
     options |-> EmptyObject, pipelineSegments |-> <<>>]

\* a loop body in which the earlier segment wins
ExtractStepFirstWins(acc, seg) ==
    IF StartsWith(seg, <<"imageMogr2">>)
    THEN [operations |-> Spread(parseImageMogr2(seg), acc.operations),
          pipelineSegments |-> acc.pipelineSegments,
          hasImageMogr2 |-> TRUE]
    ELSE [operations |-> acc.operations,
          pipelineSegments |-> Append(acc.pipelineSegments, seg),
          hasImageMogr2 |-> acc.hasImageMogr2]

\* an extract that reads the first dialect segment only
ExtractStepFirstOnly(acc, seg) ==
    IF StartsWith(seg, <<"imageMogr2">>)
    THEN [operations |-> IF acc.hasImageMogr2 THEN acc.operations ELSE parseImageMogr2(seg),
          pipelineSegments |-> acc.pipelineSegments,
          hasImageMogr2 |-> TRUE]
    ELSE [operations |-> acc.operations,
          pipelineSegments |-> Append(acc.pipelineSegments, seg),
          hasImageMogr2 |-> acc.hasImageMogr2]

\* one iteration of for (const seg of segments)
ExtractStep(acc, seg) ==
    IF StartsWith(seg, <<"imageMogr2">>)
    THEN [operations |-> Spread(acc.operations, parseImageMogr2(seg)),
          pipelineSegments |-> acc.pipelineSegments,
          hasImageMogr2 |-> TRUE]
    ELSE [operations |-> acc.operations,
          pipelineSegments |-> Append(acc.pipelineSegments, seg),
          hasImageMogr2 |-> acc.hasImageMogr2]

RECURSIVE ExtractLoop(_, _)
ExtractLoop(segments, acc) ==
    IF segments = <<>> THEN acc
    ELSE ExtractLoop(Tail(segments), ExtractStep(acc, segments[1]))

extract(url) ==
    LET u == ParseURL(url)
        rawQuery == decodeURIComponent(Slice1(u.search))
        acc == ExtractLoop(Split(rawQuery.s, "|"),
                           [operations |-> EmptyObject, pipelineSegments |-> <<>>,
                            hasImageMogr2 |-> FALSE])
    IN  IF ~u.ok THEN Null
        ELSE IF ~isCosUrl(url) THEN Null
        ELSE IF ~rawQuery.ok THEN Thrown("URIError")
        ELSE IF rawQuery.s = <<>> THEN Null
        ELSE IF ~acc.hasImageMogr2 /\ acc.pipelineSegments = <<>> THEN Null
        ELSE [tag |-> "ok", src |-> u.origin \o u.pathname,
              operations |-> acc.operations, options |-> EmptyObject,
              pipelineSegments |-> acc.pipelineSegments]

----------------------------------------------------------------------------
(* generate, transform                                                     *)

Returned(s) == [tag |-> "ok", s |-> s]
Raised(e) == [tag |-> "throw", s |-> <<e>>]

\* a generate that hands src back when there is nothing to append
generateKeepsSrc(url, ops, opts, segs) ==
    LET u == ParseURL(url)
        baseUrl == u.origin \o u.pathname
        processing == buildImageMogr2(Spread(opts, ops))
        allSegments == (IF processing # <<>> THEN <<processing>> ELSE <<>>) \o segs
    IN  IF ~u.ok \/ ~isCosUrl(url) \/ allSegments = <<>> THEN Returned(url)
        ELSE Returned(baseUrl \o <<"?">> \o Join(allSegments, "|"))

\* a generate in which the defaults override the explicit operations
generateDefaultsWin(url, ops, opts, segs) ==
    LET u == ParseURL(url)
        baseUrl == u.origin \o u.pathname
        processing == buildImageMogr2(Spread(ops, opts))
        allSegments == (IF processing # <<>> THEN <<processing>> ELSE <<>>) \o segs
    IN  IF ~u.ok \/ ~isCosUrl(url) THEN Returned(url)
        ELSE IF allSegments = <<>> THEN Returned(baseUrl)
        ELSE Returned(baseUrl \o <<"?">> \o Join(allSegments, "|"))

\* a generate that puts the pipeline segments before the processing segment
generateForeignFirst(url, ops, opts, segs) ==
    LET u == ParseURL(url)
        baseUrl == u.origin \o u.pathname
        processing == buildImageMogr2(Spread(opts, ops))
        allSegments == segs \o (IF processing # <<>> THEN <<processing>> ELSE <<>>)
    IN  IF ~u.ok \/ ~isCosUrl(url) THEN Returned(url)
        ELSE IF allSegments = <<>> THEN Returned(baseUrl)
        ELSE Returned(baseUrl \o <<"?">> \o Join(allSegments, "|"))

generate(url, ops, opts, segs) ==
    LET u == ParseURL(url)
        baseUrl == u.origin \o u.pathname
        effectiveOps == Spread(opts, ops)
        processing == buildImageMogr2(effectiveOps)
        allSegments == (IF processing # <<>> THEN <<processing>> ELSE <<>>) \o segs
    IN  IF ~u.ok THEN Returned(url)
        ELSE IF ~isCosUrl(url) THEN Returned(url)
        ELSE IF allSegments = <<>> THEN Returned(baseUrl)
        ELSE Returned(baseUrl \o <<"?">> \o Join(allSegments, "|"))

\* the fields transform copies from the caller's operations
Fields ==
    {"width", "height", "thumbnailMode", "format", "quality", "rquality",
     "lquality", "autoOrient", "rotate", "flip", "iradius", "rradius", "ignoreError"}

\* if (operations.k !== undefined) merged.k = operations.k, for every field
ApplyDefined(merged, ops) ==
    LET set == {k \in Fields : Get(ops, k) # Undefined}
    IN  [k \in (DOMAIN merged) \cup set |-> IF k \in set THEN ops[k] ELSE merged[k]]

\* a transform in which the defaults override the URL's existing operations
transformDefaultsWin(url, ops, opts) ==
    LET base == extract(url)
        merged == ApplyDefined(Spread(base.operations, opts), ops)
    IN  IF base.tag = "throw" THEN Raised(base.src[1])
        ELSE IF base.tag = "null" THEN generate(url, ops, opts, <<>>)
        ELSE generate(base.src, merged, EmptyObject, base.pipelineSegments)

transform(url, ops, opts) ==
    LET base == extract(url)
        merged == ApplyDefined(Spread(opts, base.operations), ops)
    IN  IF base.tag = "throw" THEN Raised(base.src[1])
        ELSE IF base.tag = "null" THEN generate(url, ops, opts, <<>>)
        ELSE generate(base.src, merged, EmptyObject, base.pipelineSegments)

----------------------------------------------------------------------------
(* The arguments the callers pass.                                         *)

NumVals == {0} \cup {6 * n : n \in 1..MaxNum}
Modes == {"fit", "cover", "force", "shrinkOnly", "enlargeOnly"}
Forced90 == <<"9", "0", "!">>

\* the values of the declared type of each field (QCloudCosOperations)
ValuesOf(k) ==
    CASE k \in {"width", "height", "iradius", "rradius", "rquality", "lquality"} ->
            {Num(n) : n \in NumVals}
      [] k = "rotate" -> {Num(n) : n \in NumVals \cup {-6}}
      [] k = "thumbnailMode" -> {Str(Tok(m)) : m \in Modes}
      [] k = "format" -> {Str(Tok("webp")), Str(Tok("jpg")), Str(<<>>)}
      [] k = "quality" -> {Num(n) : n \in NumVals} \cup {Str(Forced90), Str(<<"6">>)}
      [] k \in {"autoOrient", "ignoreError"} -> {Bool(TRUE), Bool(FALSE)}
      [] k = "flip" -> {Str(Tok("vertical")), Str(Tok("horizontal"))}

\* an optional property may also hold undefined
ValuesOrUndefined(k) == ValuesOf(k) \cup {Undefined}

RECURSIVE ObjectsOn(_)
\* every object whose own properties are exactly the keys
ObjectsOn(keys) ==
    IF keys = {} THEN {EmptyObject}
    ELSE LET k == CHOOSE k \in keys : TRUE
         IN  {Assign(o, k, v) : o \in ObjectsOn(keys \ {k}), v \in ValuesOrUndefined(k)}

\* every object with at most n of the keys
ObjectsUpTo(keys, n) ==
    UNION {ObjectsOn(S) : S \in {T \in SUBSET keys : Cardinality(T) <= n}}

\* the fields of QCloudCosOptions
OptionFields ==
    {"format", "thumbnailMode", "quality", "rquality", "lquality", "autoOrient",
     "ignoreError"}

FullOperations ==
    [width |-> Num(6), height |-> Num(12), thumbnailMode |-> Str(Tok("cover")),
     format |-> Str(Tok("webp")), quality |-> Str(Forced90), rquality |-> Num(6),
     lquality |-> Num(12), autoOrient |-> Bool(TRUE), rotate |-> Num(-6),
     flip |-> Str(Tok("vertical")), iradius |-> Num(0), rradius |-> Num(6),
     ignoreError |-> Bool(TRUE)]

\* operations for buildImageMogr2: few fields, or a resize triple, or all
BuildOperations ==
    ObjectsUpTo(Fields, MaxFields)
    \cup ObjectsOn({"width", "height", "thumbnailMode"})
    \cup {FullOperations}

\* operations and options for transform and generate: at most one field each
FewOperations == ObjectsUpTo(Fields, 1)
FewOptions == ObjectsUpTo(OptionFields, 1)

\* a handful for the runs that vary the URL instead
SampleOperations ==
    {EmptyObject,
     [width |-> Num(12)],
     [format |-> Str(Tok("webp"))],
     [thumbnailMode |-> Str(Tok("cover"))],
     [autoOrient |-> Bool(FALSE)],
     [quality |-> Undefined],
     [height |-> Num(6), quality |-> Num(12)]}
SampleOptions ==
    {EmptyObject, [format |-> Str(Tok("jpg"))], [thumbnailMode |-> Str(Tok("force"))],
     [quality |-> Str(Forced90), autoOrient |-> Bool(TRUE)]}

\* token groups of a segment: a keyword with its argument, a bare keyword,
\* an unknown token
Groups ==
    {<<"thumbnail", "/", "6", "x", "1", "2">>, <<"thumbnail", "/", "6", "x">>,
     <<"thumbnail", "/", "x", "6", "!">>, <<"thumbnail", "/", "6", "x", "6", ">">>,
     <<"thumbnail", "/", "6", "x", "6", "<">>, <<"thumbnail", "/", "!", "5", "0", "p">>,
     <<"crop", "/", "6", "x", "6">>,
     <<"gravity", "/", "center">>,
     <<"iradius", "/", "6">>, <<"iradius", "/", "abc">>, <<"iradius", "/">>,
     <<"rradius", "/", "1", ".", "5">>,
     <<"auto-orient">>,
     <<"rotate", "/", "-", "6">>, <<"rotate", "/", "0", "x", "1", "0">>,
     <<"flip", "/", "vertical">>, <<"flip", "/", "auto-orient">>,
     <<"format", "/", "webp">>, <<"format", "/", "jpg">>, <<"format">>,
     <<"quality", "/", "6">>, <<"quality", "/", "9", "0", "!">>,
     <<"rquality", "/", "6">>, <<"lquality", "/", "1", "2">>,
     <<"ignore-error", "/", "1">>, <<"ignore-error">>,
     <<"watermark">>, <<"1">>}

RECURSIVE SeqsUpTo(_, _)
\* the sequences of at most n elements of S
SeqsUpTo(S, n) ==
    IF n = 0 THEN {<<>>}
    ELSE LET shorter == SeqsUpTo(S, n - 1)
         IN  shorter \cup {Append(q, e) : q \in {r \in shorter : Len(r) = n - 1}, e \in S}

\* parseImageMogr2's argument: a chain of groups, with or without the prefix
Chains == {Join(q, "/") : q \in SeqsUpTo(Groups, MaxGroups)}
ParseSegments ==
    Chains \cup {<<"imageMogr2", "/">> \o c : c \in Chains} \cup {<<"imageMogr2">>}

\* pipeline segments of a query string: dialect segments, one of them
\* percent-encoded, foreign segments, one with an escape, one with an escaped
\* percent sign, one with a percent sign that starts no escape
DialectSegments ==
    {<<"imageMogr2", "/", "thumbnail", "/", "6", "x", "1", "2">>,
     <<"imageMogr2", "/", "crop", "/", "6", "x", "6">>,
     <<"imageMogr2", "/", "thumbnail", "/", "x", "6", ">", "/", "ignore-error", "/", "1">>,
     <<"imageMogr2", "/", "format", "/", "jpg", "/", "quality", "/", "6">>,
     <<"imageMogr2", "/", "format", "/", "webp">>,
     <<"imageMogr2", "/", "auto-orient", "/", "quality", "/", "9", "0", "!">>,
     <<"imageMogr2", "%2F", "rotate", "%2F", "1", "2">>,
     <<"imageMogr2">>}
ForeignSegments ==
    {<<"watermark", "/", "2", "/", "text", "/", "AA">>,
     <<"sign", "=", "abc">>,
     <<"watermark", "/", "2", "/", "text", "/", "a", "%2F", "b">>,
     <<"watermark", "/", "2", "/", "text", "/", "a", "%25">>,
     <<"watermark", "/", "2", "/", "text", "/", "%">>}

Queries == {Join(q, "|") : q \in SeqsUpTo(DialectSegments \cup ForeignSegments, MaxSegs)}
SampleQueries ==
    {<<>>,
     <<"imageMogr2", "/", "thumbnail", "/", "6", "x", "1", "2">>,
     <<"imageMogr2", "/", "crop", "/", "6", "x", "6", "/", "format", "/", "jpg",
       "/", "quality", "/", "6", "/", "auto-orient">>,
     <<"imageMogr2", "/", "format", "/", "jpg", "|", "watermark", "/", "2", "/",
       "text", "/", "AA">>,
     <<"sign", "=", "abc">>}

CosHost == <<"b-1", ".", "cos", ".", "ap-beijing", ".", "myqcloud", ".", "com">>
PicHost ==
    <<"examplebucket-1250000000", ".", "pic", ".", "ap-guangzhou", ".", "myqcloud",
      ".", "com">>
OtherHosts ==
    {<<"example", ".", "com">>,
     <<"b-1", ".", "ci", ".", "ap-beijing", ".", "myqcloud", ".", "com">>,
     <<"bucket", ".", "cos", ".", "ap-beijing", ".", "myqcloud", ".", "com">>,
     <<"b-1", ".", "cos", ".", "beijing", ".", "myqcloud", ".", "com">>,
     <<"b-1", ".", "cos", ".", "ap-beijing", ".", "myqcloud", ".", "com", ".",
       "evil", ".", "com">>}
Path == <<"/", "p.jpg">>

Url(host, query) ==
    <<"https://">> \o host \o Path \o (IF query = <<>> THEN <<>> ELSE <<"?">> \o query)

\* strings that new URL rejects
NotUrls == {<<"not-a-url">>, <<>>}

MatchingUrls == {Url(h, q) : h \in {CosHost, PicHost}, q \in Queries}
OtherUrls ==
    {Url(h, q) : h \in OtherHosts,
                 q \in SampleQueries \cup {<<"imageMogr2", "/", "format", "/", "%">>}}
    \cup NotUrls
SampleUrls ==
    {Url(CosHost, q) : q \in SampleQueries}
    \cup {Url(CosHost, <<>>) \o <<"#", "frag">>, <<"https://">> \o CosHost}

SamplePipelines ==
    {<<>>, << <<"watermark", "/", "2", "/", "text", "/", "AA">> >>,
     << <<"sign", "=", "abc">>, <<"watermark", "/", "2", "/", "text", "/", "AA">> >>}

----------------------------------------------------------------------------
(* The state machine: a caller invokes one exported function on arguments  *)
(* of its declared types, and the function returns.                        *)

Init ==
    /\ pc = "call"
    /\ ret = <<>>
    /\ cursor = 0
    /\ \/ /\ call = "isCosUrl"
          /\ src \in MatchingUrls \cup OtherUrls
          /\ operations = EmptyObject /\ options = EmptyObject
          /\ pipelineSegments = <<>> /\ segment = <<>>
       \/ /\ call = "buildImageMogr2"
          /\ operations \in BuildOperations
          /\ src = <<>> /\ options = EmptyObject
          /\ pipelineSegments = <<>> /\ segment = <<>>
       \/ /\ call = "parseImageMogr2"
          /\ segment \in ParseSegments
          /\ src = <<>> /\ operations = EmptyObject /\ options = EmptyObject
          /\ pipelineSegments = <<>>
       \/ /\ call = "extract"
          /\ src \in MatchingUrls \cup OtherUrls \cup SampleUrls
          /\ operations = EmptyObject /\ options = EmptyObject
          /\ pipelineSegments = <<>> /\ segment = <<>>
       \/ /\ call = "generate"
          /\ \/ /\ src = Url(CosHost, <<>>)
                /\ operations \in BuildOperations
                /\ options = EmptyObject
                /\ pipelineSegments = <<>>
             \/ /\ src \in SampleUrls \cup OtherUrls
                /\ operations \in SampleOperations
                /\ options \in SampleOptions
                /\ pipelineSegments \in SamplePipelines
          /\ segment = <<>>
       \/ /\ call = "transform"
          /\ \/ /\ src \in SampleUrls
                /\ operations \in FewOperations
                /\ options \in FewOptions
             \/ /\ src \in MatchingUrls \cup OtherUrls
                /\ operations \in SampleOperations
                /\ options \in SampleOptions
          /\ pipelineSegments = <<>> /\ segment = <<>>

Args == <<src, operations, options, pipelineSegments, segment, call>>

IsCosUrl ==
    /\ pc = "call" /\ call = "isCosUrl"
    /\ ret' = isCosUrl(src)
    /\ pc' = "return"
    /\ UNCHANGED <<Args, cursor>>

BuildImageMogr2 ==
    /\ pc = "call" /\ call = "buildImageMogr2"
    /\ ret' = buildImageMogr2(operations)
    /\ pc' = "return"
    /\ UNCHANGED <<Args, cursor>>

ParseImageMogr2 ==
    /\ pc = "call" /\ call = "parseImageMogr2"
    /\ ret' = parseImageMogr2(segment)
    /\ pc' = "return"
    /\ UNCHANGED <<Args, cursor>>

Extract ==
    /\ pc = "call" /\ call = "extract"
    /\ ret' = extract(src)
    /\ pc' = "return"
    /\ UNCHANGED <<Args, cursor>>

Generate ==
    /\ pc = "call" /\ call = "generate"
    /\ ret' = generate(src, operations, options, pipelineSegments)
    /\ pc' = "return"
    /\ UNCHANGED <<Args, cursor>>

\* a transform that merges into the caller's operations object
TransformWritesOperations ==
    /\ pc = "call" /\ call = "transform"
    /\ ret' = transform(src, operations, options)
    /\ operations' = ApplyDefined(Spread(options, extract(src).operations), operations)
    /\ pc' = "return"
    /\ UNCHANGED <<src, options, pipelineSegments, segment, call, cursor>>

Transform ==
    /\ pc = "call" /\ call = "transform"
    /\ ret' = transform(src, operations, options)
    /\ pc' = "return"
    /\ UNCHANGED <<Args, cursor>>

Next ==
    \/ IsCosUrl
    \/ BuildImageMogr2
    \/ ParseImageMogr2
    \/ Extract
    \/ Generate
    \/ Transform

Spec == Init /\ [][Next]_vars

----------------------------------------------------------------------------
(* parseImageMogr2 step by step: one action per iteration of its loop.     *)
(* ret holds the object ops that the function builds and returns.          *)

\* const parts = stripped.split("/")
ScanParts == Split(StripPrefix(segment), "/")

\* before the call: pc is "idle"
ScanInit ==
    /\ pc = "idle"
    /\ call = "parseImageMogr2"
    /\ segment = <<>>
    /\ src = <<>> /\ operations = EmptyObject /\ options = EmptyObject
    /\ pipelineSegments = <<>>
    /\ ret = <<>>
    /\ cursor = 0

\* the caller invokes parseImageMogr2(segment)
ScanCall ==
    /\ pc = "idle"
    /\ segment' \in ParseSegments
    /\ pc' = "call"
    /\ UNCHANGED <<src, operations, options, pipelineSegments, call, ret, cursor>>

\* const ops = {}; if (!stripped) return ops
ScanNothing ==
    /\ pc = "call"
    /\ StripPrefix(segment) = <<>>
    /\ ret' = EmptyObject
    /\ pc' = "return"
    /\ UNCHANGED <<Args, cursor>>

\* const ops = {}; const parts = stripped.split("/"); let i = 0
ScanEnter ==
    /\ pc = "call"
    /\ StripPrefix(segment) # <<>>
    /\ ret' = EmptyObject
    /\ cursor' = 1
    /\ pc' = "loop"
    /\ UNCHANGED Args

\* i < parts.length: the loop body, then i++
ScanIterate ==
    /\ pc = "loop"
    /\ cursor <= Len(ScanParts)
    /\ \E parts \in {ScanParts} :
         \E r \in {ScanStep(parts, cursor, ret)} :
            /\ ret' = r.ops
            /\ cursor' = r.i
    /\ UNCHANGED <<Args, pc>>

\* i >= parts.length: return ops
ScanReturn ==
    /\ pc = "loop"
    /\ cursor > Len(ScanParts)
    /\ pc' = "return"
    /\ UNCHANGED <<Args, ret, cursor>>

ScanNext ==
    \/ ScanCall
    \/ ScanNothing
    \/ ScanEnter
    \/ ScanIterate
    \/ ScanReturn

\* a call that has started runs to its end
ScanSpec == ScanInit /\ [][ScanNext]_vars /\ WF_vars(ScanNext)

\* the loop returns what parseImageMogr2 returns
ScanReturnsParse == pc = "return" => ret = parseImageMogr2(segment)

----------------------------------------------------------------------------
(* What the specification says of the serializer (section 4.2), stated     *)
(* without reference to the code: the token of each field, and the order.  *)

Returns(f) == pc = "return" /\ call = f

\* the fields that have a token of their own, in the specified order;
\* "resize" stands for width / height / thumbnailMode
TokenOrder ==
    <<"resize", "iradius", "rradius", "autoOrient", "rotate", "flip", "format",
      "quality", "rquality", "lquality", "ignoreError">>

ModeSuffix(m) ==
    CASE m = Str(Tok("force")) -> <<"!">>
      [] m = Str(Tok("shrinkOnly")) -> <<">">>
      [] m = Str(Tok("enlargeOnly")) -> <<"<">>
      [] OTHER -> <<>>

Dim(ops, k) == IF Get(ops, k) = Undefined THEN <<>> ELSE StringOf(ops[k])

\* the token the specification gives field k of ops
SpecToken(ops, k) ==
    CASE k = "resize" ->
            (IF Get(ops, "thumbnailMode") = Str(Tok("cover"))
             THEN <<"crop", "/">> ELSE <<"thumbnail", "/">>)
            \o Dim(ops, "width") \o <<"x">> \o Dim(ops, "height")
            \o ModeSuffix(Get(ops, "thumbnailMode"))
      [] k = "autoOrient" -> <<"auto-orient">>
      [] k = "ignoreError" -> <<"ignore-error", "/", "1">>
      [] OTHER -> <<k, "/">> \o StringOf(ops[k])

\* a field is set: it holds a value (a flag: it holds true)
IsSet(ops, k) ==
    CASE k = "resize" -> Get(ops, "width") # Undefined \/ Get(ops, "height") # Undefined
      [] k \in {"autoOrient", "ignoreError"} -> Get(ops, k) = Bool(TRUE)
      [] OTHER -> Get(ops, k) # Undefined

\* a field is emitted: it is set, and format and flip are not the empty string
IsEmitted(ops, k) ==
    IsSet(ops, k) /\ (k \in {"format", "flip"} => ops[k] # Str(<<>>))

TokenFields == {TokenOrder[i] : i \in 1..Len(TokenOrder)}
SetFields(ops) == {k \in TokenFields : IsSet(ops, k)}
EmittedFields(ops) == {k \in TokenFields : IsEmitted(ops, k)}

RECURSIVE TokensFrom(_, _, _)
\* the tokens of those fields among TokenOrder[i..] that are in `present`
TokensFrom(ops, i, present) ==
    IF i > Len(TokenOrder) THEN <<>>
    ELSE (IF TokenOrder[i] \in present THEN <<SpecToken(ops, TokenOrder[i])>> ELSE <<>>)
         \o TokensFrom(ops, i + 1, present)

SetTokens(ops) == TokensFrom(ops, 1, SetFields(ops))
EmittedTokens(ops) == TokensFrom(ops, 1, EmittedFields(ops))

\* one segment: the prefix once, the tokens joined with "/"
SlashJoined(tokens) ==
    IF tokens = <<>> THEN <<>> ELSE <<"imageMogr2", "/">> \o Join(tokens, "/")

\* one segment per token, the segments joined with "|"
PipeJoined(tokens) ==
    Join([i \in 1..Len(tokens) |-> <<"imageMogr2", "/">> \o tokens[i]], "|")

----------------------------------------------------------------------------
(* C9.  buildImageMogr2 returns the prefix "imageMogr2/" once, followed by *)
(* the tokens joined with "/", in the order resize/crop, iradius, rradius, *)
(* auto-orient, rotate, flip, format, quality, rquality, lquality,         *)
(* ignore-error/1, each token present exactly when its field is set, and   *)
(* the empty string when no field is set.                                  *)

----------------------------------------------------------------------------
(* C10.  When more than one operation is set, buildImageMogr2 emits every  *)
(* operation as its own segment "imageMogr2/<operation>" and joins the     *)
(* segments with "|", in the fixed operation order.                        *)

C10_OneSegmentPerOperation ==
    (Returns("buildImageMogr2") /\ Len(EmittedTokens(operations)) > 1) =>
        ret = PipeJoined(EmittedTokens(operations))

----------------------------------------------------------------------------
(* Reading a URL string as the claims do.                                  *)

\* the raw query of a URL string: what follows the first "?", up to "#"
RawQuery(s) ==
    LET iQ == FirstOf(s, {"?"})
        after == SubSeq(s, iQ + 1, Len(s))
    IN  SubSeq(after, 1, FirstOf(after, {"#"}) - 1)

IsForeign(seg) == ~StartsWith(seg, <<"imageMogr2">>)
IsDialect(seg) == StartsWith(seg, <<"imageMogr2">>)

\* the pipe-delimited segments of a query, and the foreign ones in order
SegmentsOf(q) == IF q = <<>> THEN <<>> ELSE Split(q, "|")
ForeignOf(q) == SelectSeq(SegmentsOf(q), IsForeign)
DialectOf(q) == SelectSeq(SegmentsOf(q), IsDialect)

\* the URL's host is one of the provider's (by construction of the inputs)
HostOf(s) == SubSeq(s, 2, FirstOf(s, {"/", "?", "#"}) - 1)
IsMatching(s) == StartsWith(s, <<"https://">>) /\ HostOf(s) \in {CosHost, PicHost}

\* an object without its properties that hold undefined
Defined(o) == [k \in {j \in DOMAIN o : o[j] # Undefined} |-> o[k]]

\* the operations a URL string carries: those of its dialect segment
CarriedBy(s) ==
    LET d == DialectOf(RawQuery(s))
    IN  IF d = <<>> THEN EmptyObject ELSE parseImageMogr2(d[1])

----------------------------------------------------------------------------
(* C3.  Round trip: parseImageMogr2(buildImageMogr2(O)) equals O field for *)
(* field for every Operation Set O over the defined fields, and likewise   *)
(* extract(generate(base, O)).operations equals O.                         *)

\* C3 as claimed: for every O
C3_RoundTripEveryO ==
    /\ Returns("buildImageMogr2") => parseImageMogr2(ret) = Defined(operations)
    /\ (Returns("generate") /\ IsMatching(src) /\ options = EmptyObject
            /\ pipelineSegments = <<>> /\ Defined(operations) # EmptyObject) =>
          extract(ret.s).operations = Defined(operations)

\* O is in the form the parser produces: thumbnailMode is not "fit" and comes
\* with a width or a height, a flag is true, format is not empty, and a
\* quality given as a string does not read as a number
IsParserForm(o) ==
    /\ "thumbnailMode" \in DOMAIN o =>
          /\ o.thumbnailMode # Str(Tok("fit"))
          /\ ("width" \in DOMAIN o \/ "height" \in DOMAIN o)
    /\ \A k \in {"autoOrient", "ignoreError"} : k \in DOMAIN o => o[k] = Bool(TRUE)
    /\ "format" \in DOMAIN o => o.format # Str(<<>>)
    /\ ("quality" \in DOMAIN o /\ o.quality.t = "string") => Number(o.quality.s) = NaN

\* C3 as amended: the round trip holds for every O in the form the parser
\* produces (and, through generate and extract, for every such O that is not
\* empty)
C3_RoundTripParserForm ==
    /\ (Returns("buildImageMogr2") /\ IsParserForm(Defined(operations))) =>
          parseImageMogr2(ret) = Defined(operations)
    /\ (Returns("generate") /\ IsMatching(src) /\ options = EmptyObject
            /\ pipelineSegments = <<>> /\ Defined(operations) # EmptyObject
            /\ IsParserForm(Defined(operations))) =>
          /\ extract(ret.s).tag = "ok"
          /\ extract(ret.s).operations = Defined(operations)

C3_Witness ==
    /\ Returns("generate")
    /\ IsMatching(src)
    /\ operations = FullOperations
    /\ IsParserForm(operations)
    /\ extract(ret.s).operations = FullOperations

----------------------------------------------------------------------------
(* C6.  Non-COS pass-through: for a URL whose hostname does not match the  *)
(* provider pattern, or that cannot be parsed, generate and transform      *)
(* return src unchanged, whatever its query and whatever the operations    *)
(* and options.                                                            *)

C6_NonCosPassThrough ==
    ((Returns("generate") \/ Returns("transform")) /\ src \in OtherUrls) =>
        ret = Returned(src)

C6_Witness ==
    /\ Returns("transform")
    /\ src = Url(<<"b-1", ".", "ci", ".", "ap-beijing", ".", "myqcloud", ".", "com">>,
                 <<"imageMogr2", "/", "format", "/", "%">>)
    /\ operations = [width |-> Num(12)]
    /\ options # EmptyObject
    /\ ret.s = src

----------------------------------------------------------------------------
(* C7.  extract merges every dialect segment of the pipeline: each field   *)
(* has the value set by the last dialect segment that sets it, and fields  *)
(* set only by earlier segments are retained.                              *)

\* the dialect segments of the decoded query of a URL string
DecodedDialect(s) == DialectOf(decodeURIComponent(RawQuery(s)).s)

\* the indices of the dialect segments that set field k
Setters(segs, k) == {i \in 1..Len(segs) : k \in DOMAIN parseImageMogr2(segs[i])}

Last(S) == CHOOSE i \in S : \A j \in S : j <= i

----------------------------------------------------------------------------
(* C8.  extract returns null for every URL that is not a COS URL and for   *)
(* every COS URL whose query does not contain imageMogr2 parameters.       *)

HasNoDialect(s) == \A i \in 1..Len(s) : s[i] # "imageMogr2"
HasNoQuery(s) == \A i \in 1..Len(s) : s[i] # "?"

----------------------------------------------------------------------------
(* C5.  No function ever raises: every input, however malformed, gives a   *)
(* returned value.                                                         *)

C5_NeverRaises ==
    (pc = "return" /\ call \in {"extract", "generate", "transform"}) =>
        ret.tag # "throw"

----------------------------------------------------------------------------
(* C2.  Foreign segment preservation: every pipe-delimited segment of the  *)
(* input URL's query that does not begin with imageMogr2 appears in the    *)
(* output of transform character for character, in the original order.     *)

C2_ForeignSegmentsVerbatim ==
    (Returns("transform") /\ IsMatching(src)) =>
        /\ ret.tag = "ok"
        /\ ForeignOf(RawQuery(ret.s)) = ForeignOf(RawQuery(src))

----------------------------------------------------------------------------
(* C1.  Precedence in transform(url, V, D) on a matching URL that carries  *)
(* existing operations E: the output carries, for every field k, V[k] if V *)
(* defines k, otherwise E[k] if E defines k, otherwise D[k]; k is absent   *)
(* only if none of the three defines it.                                   *)

\* the first of V, E, D that defines k
Layered(V, E, D) ==
    LET def == {k \in Fields : Get(V, k) # Undefined \/ Get(E, k) # Undefined
                                  \/ Get(D, k) # Undefined}
    IN  [k \in def |-> IF Get(V, k) # Undefined THEN V[k]
                       ELSE IF Get(E, k) # Undefined THEN E[k] ELSE D[k]]

HasExistingState(s) ==
    IsMatching(s) /\ extract(s).tag = "ok" /\ extract(s).operations # EmptyObject

\* the operations `out` read from a URL carry the value v of field k: a flag
\* that is false by having no token, the mode "fit" by the unmarked token, a
\* quality by its text, any other value by itself
Carries(out, k, v) ==
    CASE k \in {"autoOrient", "ignoreError"} -> (Get(out, k) = Bool(TRUE)) = (v = Bool(TRUE))
      [] k = "thumbnailMode" ->
            IF v = Str(Tok("fit")) THEN Get(out, k) = Undefined ELSE Get(out, k) = v
      [] k = "quality" -> k \in DOMAIN out /\ StringOf(out[k]) = StringOf(v)
      [] OTHER -> Get(out, k) = v

\* C1 as claimed: the output carries the layered value of every field, and
\* no field that none of V, E, D defines
C1_OutputCarriesEveryLayeredField ==
    (Returns("transform") /\ HasExistingState(src)) =>
        LET M == Layered(operations, extract(src).operations, options)
        IN  /\ ret.tag = "ok"
            /\ \A k \in Fields :
                  IF k \in DOMAIN M THEN Carries(CarriedBy(ret.s), k, M[k])
                  ELSE k \notin DOMAIN CarriedBy(ret.s)

\* the fields of M that a URL can carry, as a URL carries them: a flag only
\* when true, format and flip only when not empty, thumbnailMode only beside
\* a width or a height and only when not "fit" (the unmarked thumbnail token
\* stands for fit), a quality string that reads as a number as that number
AsCarried(M) ==
    LET carried ==
            {k \in DOMAIN M :
                CASE k = "thumbnailMode" ->
                        /\ M[k] # Str(Tok("fit"))
                        /\ ("width" \in DOMAIN M \/ "height" \in DOMAIN M)
                  [] k \in {"autoOrient", "ignoreError"} -> M[k] = Bool(TRUE)
                  [] k \in {"format", "flip"} -> M[k] # Str(<<>>)
                  [] OTHER -> TRUE}
    IN  [k \in carried |->
            IF k = "quality" /\ M[k].t = "string" /\ Number(M[k].s) # NaN
            THEN Number(M[k].s) ELSE M[k]]

\* C1 as amended: the value layered for every field k is V[k] if V defines
\* k, otherwise E[k] if E defines k, otherwise D[k], and the output carries
\* it whenever a URL can carry it
C1_OutputCarriesLayeredFields ==
    (Returns("transform") /\ HasExistingState(src)) =>
        /\ ret.tag = "ok"
        /\ CarriedBy(ret.s) =
              AsCarried(Layered(operations, extract(src).operations, options))

C1_Witness ==
    /\ Returns("transform")
    /\ extract(src).operations =
          [width |-> Num(6), height |-> Num(6), thumbnailMode |-> Str(Tok("cover")),
           format |-> Str(Tok("jpg")), quality |-> Num(6), autoOrient |-> Bool(TRUE)]
    /\ operations = [format |-> Str(Tok("webp"))]
    /\ options = [quality |-> Str(Forced90)]
    /\ CarriedBy(ret.s).format = Str(Tok("webp"))
    /\ CarriedBy(ret.s).quality = Num(6)

----------------------------------------------------------------------------
(* C4.  Composition of transform: for every URL and every pair O1, O2 of   *)
(* Operation Sets whose defined fields are disjoint,                       *)
(* transform(transform(url, O1), O2) equals transform(url, O1 united with  *)
(* O2).                                                                    *)

DisjointFields(a, b) == (DOMAIN Defined(a)) \cap (DOMAIN Defined(b)) = {}

\* transform applied to what a first transform returned; a first call that
\* raised raises here too
Then(first, O2) ==
    IF first.tag = "throw" THEN first ELSE transform(first.s, O2, EmptyObject)

C4_TransformComposes ==
    (Returns("transform") /\ options = EmptyObject) =>
        \A O2 \in FewOperations :
            DisjointFields(operations, O2) =>
                Then(ret, O2) =
                    transform(src, Spread(Defined(operations), Defined(O2)), EmptyObject)

----------------------------------------------------------------------------
(* C11.  generate returns the original src string unchanged when src is a  *)
(* COS URL but the operations, with any option defaults, produce no        *)
(* imageMogr2 parameters and no pipeline segments are supplied, whatever    *)
(* query or fragment src carries.                                          *)

\* origin + path of a URL string: the string up to its query or fragment,
\* with the path "/" when it names none
BaseOf(s) ==
    LET cut == SubSeq(s, 1, FirstOf(s, {"?", "#"}) - 1)
    IN  IF \E i \in 1..Len(cut) : cut[i] = "/" THEN cut ELSE cut \o <<"/">>

\* generate has nothing to append
NothingToAppend ==
    /\ EmittedTokens(Spread(options, operations)) = <<>>
    /\ pipelineSegments = <<>>

\* a URL string as the URL parser writes it back: with the path "/" when it
\* names none
WithPath(s) ==
    LET h == FirstOf(s, {"/", "?", "#"})
    IN  IF h <= Len(s) /\ s[h] = "/" THEN s
        ELSE SubSeq(s, 1, h - 1) \o <<"/">> \o SubSeq(s, h, Len(s))

----------------------------------------------------------------------------
(* C12.  For a matching src, generate(src, V, D, P) returns origin + path  *)
(* of src followed, when there is anything to append, by "?" and the       *)
(* "|"-join of the serialization of (D overlaid field by field by V,       *)
(* explicit V winning) if that serialization is not empty, and then the    *)
(* elements of P in their order; nothing of src's query or fragment is in  *)
(* the result.                                                             *)

\* D overlaid by V: a field that V holds wins, whatever it holds
OverlaidBy(D, V) ==
    [k \in (DOMAIN D) \cup (DOMAIN V) |-> IF k \in DOMAIN V THEN V[k] ELSE D[k]]

\* what generate appends to origin + path
Appended(V, D, P) ==
    LET ser == SlashJoined(EmittedTokens(OverlaidBy(D, V)))
        parts == (IF ser = <<>> THEN <<>> ELSE <<ser>>) \o P
    IN  IF parts = <<>> THEN <<>> ELSE <<"?">> \o Join(parts, "|")

----------------------------------------------------------------------------
(* C13.  The endpoint keywords cos and pic are equals: exchanging cos and  *)
(* pic in the hostname of any URL leaves the result of isCosUrl unchanged  *)
(* and changes the results of extract, generate and transform only by the  *)
(* same exchange in the returned src / URL.                                *)

SwapLabel(a) == IF a = "cos" THEN "pic" ELSE IF a = "pic" THEN "cos" ELSE a

\* the URL string with cos and pic exchanged in its hostname
SwapEndpoint(s) ==
    [i \in 1..Len(s) |->
        IF i < FirstOf(s, {"/", "?", "#"}) THEN SwapLabel(s[i]) ELSE s[i]]

C13_CosAndPicAreEquals ==
    /\ Returns("isCosUrl") => isCosUrl(SwapEndpoint(src)) = ret
    /\ Returns("extract") =>
          extract(SwapEndpoint(src)) = [ret EXCEPT !.src =
                                           IF ret.tag = "ok" THEN SwapEndpoint(@) ELSE @]
    /\ Returns("generate") =>
          generate(SwapEndpoint(src), operations, options, pipelineSegments)
              = Returned(SwapEndpoint(ret.s))
    /\ Returns("transform") =>
          transform(SwapEndpoint(src), operations, options)
              = IF ret.tag = "ok" THEN Returned(SwapEndpoint(ret.s)) ELSE ret

C13_Witness ==
    /\ Returns("transform")
    /\ HostOf(src) = PicHost
    /\ RawQuery(src) # <<>>
    /\ operations = [width |-> Num(12)]
    /\ ret.tag = "ok"
    /\ HostOf(ret.s) = PicHost
    /\ SwapEndpoint(src) # src
    /\ HostOf(transform(SwapEndpoint(src), operations, options).s) = SwapEndpoint(PicHost)

----------------------------------------------------------------------------
(* C14.  transform is idempotent: for every URL, Operation Set O and       *)
(* Options D, transform(transform(url, O, D), O, D) equals                 *)
(* transform(url, O, D).                                                   *)

\* transform applied once more to what it returned; a call that raised
\* raises again
Again(first, O, D) ==
    IF first.tag = "throw" THEN first ELSE transform(first.s, O, D)

C14_TransformIdempotent ==
    Returns("transform") => Again(ret, operations, options) = ret

----------------------------------------------------------------------------
(* C15.  An unset thumbnailMode is "fit" for the merge too: when the       *)
(* existing URL's resize is a plain thumbnail/WxH and the overrides do not *)
(* set thumbnailMode, transform keeps the resize in fit form (thumbnail/WxH *)
(* with no modifier, not crop and not "!", ">" or "<"), even when the      *)
(* Options defaults carry another thumbnailMode.                           *)

\* the operations read from a URL resize in fit form: a width or a height
\* and no mode
IsFitResize(o) ==
    /\ "width" \in DOMAIN o \/ "height" \in DOMAIN o
    /\ "thumbnailMode" \notin DOMAIN o

C15_ExistingFitBeatsDefaultMode ==
    (Returns("transform") /\ HasExistingState(src)
        /\ IsFitResize(extract(src).operations)
        /\ Get(operations, "thumbnailMode") = Undefined) =>
            /\ ret.tag = "ok"
            /\ IsFitResize(CarriedBy(ret.s))

----------------------------------------------------------------------------
(* C16.  extract is invariant under percent-encoding of the query: a       *)
(* matching URL whose query is percent-encoded yields the same src,         *)
(* operations and pipeline segments as the same URL with the query written *)
(* unencoded, the query being decoded exactly once.                        *)

Escapes == {"%2F", "%7C", "%3C", "%3E", "%25"}

\* the percent-encoding of one character of a query
EncodeAtom(a) ==
    CASE a = "/" -> "%2F"
      [] a = "|" -> "%7C"
      [] a = "<" -> "%3C"
      [] a = ">" -> "%3E"
      [] a = "%" -> "%25"
      [] OTHER -> a

\* the query is written unencoded: it holds no escape
IsUnencoded(q) == \A i \in 1..Len(q) : q[i] \notin Escapes

\* the same URL with its query percent-encoded
WithEncodedQuery(s) ==
    LET iQ == FirstOf(s, {"?"})
    IN  [i \in 1..Len(s) |-> IF i > iQ THEN EncodeAtom(s[i]) ELSE s[i]]

C16_ExtractIgnoresEncoding ==
    (Returns("extract") /\ IsMatching(src) /\ RawQuery(src) # <<>>
        /\ IsUnencoded(RawQuery(src))) =>
            extract(WithEncodedQuery(src)) = ret

----------------------------------------------------------------------------
(* C17.  In transform, an override field that is absent or undefined never *)
(* clears or changes the value layered beneath it: the output carries the  *)
(* existing-URL value, or failing that the Options default, for that       *)
(* field, both when the URL has existing processing state and when it has  *)
(* none.                                                                   *)

\* the operations an input URL carries, none when extract has no result
ExistingOf(s) ==
    IF extract(s).tag = "ok" THEN extract(s).operations ELSE EmptyObject

C17_UnsetOverrideKeepsBeneath ==
    (Returns("transform") /\ IsMatching(src) /\ ret.tag = "ok") =>
        LET beneath == AsCarried(Layered(operations, ExistingOf(src), options))
        IN  \A k \in Fields :
                Get(operations, k) = Undefined =>
                    Get(CarriedBy(ret.s), k) = Get(beneath, k)

----------------------------------------------------------------------------
(* A segment as the specification's decoder section reads it: tokens       *)
(* between "/", grouped into a keyword with its argument, a bare keyword,  *)
(* or a token that is no keyword.                                          *)

\* the keywords that take the next token as their argument
ArgKeywords ==
    {"thumbnail", "crop", "gravity", "iradius", "rradius", "rotate", "flip",
     "format", "quality", "rquality", "lquality"}
BareKeywords == {"auto-orient", "ignore-error"}

IsKeyword(tok, set) == Len(tok) = 1 /\ tok[1] \in set

\* the tokens of a segment, the namespace prefix left out
TokensOf(seg) ==
    LET s == IF StartsWith(seg, <<"imageMogr2", "/">>) THEN SubSeq(seg, 3, Len(seg))
             ELSE IF StartsWith(seg, <<"imageMogr2">>) THEN Tail(seg) ELSE seg
    IN  IF s = <<>> THEN <<>> ELSE Split(s, "/")

RECURSIVE GroupsOf(_)
\* the groups of a token sequence, left to right
GroupsOf(toks) ==
    IF toks = <<>> THEN <<>>
    ELSE IF Len(toks) >= 2 /\ (IsKeyword(toks[1], ArgKeywords)
                               \/ (toks[1] = <<"ignore-error">> /\ toks[2] = <<"1">>))
         THEN <<SubSeq(toks, 1, 2)>> \o GroupsOf(SubSeq(toks, 3, Len(toks)))
         ELSE <<SubSeq(toks, 1, 1)>> \o GroupsOf(Tail(toks))

\* every keyword that takes an argument has one
IsComplete(gs) == \A i \in 1..Len(gs) : IsKeyword(gs[i][1], ArgKeywords) => Len(gs[i]) = 2

\* every group is a keyword together with its argument, or a bare keyword,
\* or an unknown token: no keyword is left with a missing or empty argument
IsMadeOfGroups(gs) ==
    /\ IsComplete(gs)
    /\ \A i \in 1..Len(gs) : Len(gs[i]) = 2 => gs[i][2] # <<>>

\* the segment text of a sequence of groups
SegmentOf(gs) == Join([i \in 1..Len(gs) |-> Join(gs[i], "/")], "/")

\* a decimal integer with an optional sign
IsInteger(tok) ==
    /\ tok # <<>>
    /\ \/ AllDigits(tok)
       \/ Len(tok) >= 2 /\ tok[1] \in {"-", "+"} /\ AllDigits(Tail(tok))

----------------------------------------------------------------------------
(* C18.  For the keywords iradius, rradius, rotate, rquality and lquality, *)
(* parseImageMogr2 sets the field only when the argument token is a valid  *)
(* integer; every other argument (empty token, non-numeric text,           *)
(* fractional or non-decimal notation) leaves the field unset.             *)

IntegerKeywords == {"iradius", "rradius", "rotate", "rquality", "lquality"}

C18_OnlyIntegerArgumentsSet ==
    Returns("parseImageMogr2") =>
        LET gs == GroupsOf(TokensOf(segment))
        IN  \A k \in IntegerKeywords :
                k \in DOMAIN ret =>
                    \E i \in 1..Len(gs) :
                        Len(gs[i]) = 2 /\ gs[i][1] = <<k>> /\ IsInteger(gs[i][2])

----------------------------------------------------------------------------
(* C19.  parseImageMogr2 is order-independent: for any segment made of     *)
(* keyword groups (a keyword together with its argument), every reordering *)
(* of the groups yields the same Operation Set.                            *)

\* the reorderings of n groups
Reorderings(n) == {p \in [1..n -> 1..n] : \A i, j \in 1..n : p[i] = p[j] => i = j}
Reordered(gs, p) == [i \in 1..Len(gs) |-> gs[p[i]]]

AnyOrderSameResult ==
    LET gs == GroupsOf(TokensOf(segment))
    IN  \A p \in Reorderings(Len(gs)) :
            parseImageMogr2(SegmentOf(Reordered(gs, p))) = ret

\* C19 as claimed: every reordering of complete groups
C19_OrderIndependent ==
    (Returns("parseImageMogr2") /\ IsMadeOfGroups(GroupsOf(TokensOf(segment)))) =>
        AnyOrderSameResult

\* the fields that a group sets when it is read alone
SetBy(g) == DOMAIN parseImageMogr2(Join(g, "/"))

\* no two groups set the same field
SetDistinctFields(gs) ==
    \A i, j \in 1..Len(gs) : i # j => SetBy(gs[i]) \cap SetBy(gs[j]) = {}

\* C19 as amended: every reordering yields the same Operation Set when no
\* two groups set the same field (of two groups that set the same field the
\* later one wins)
C19_OrderIndependentOnDistinctFields ==
    (Returns("parseImageMogr2") /\ IsMadeOfGroups(GroupsOf(TokensOf(segment)))
        /\ SetDistinctFields(GroupsOf(TokensOf(segment)))) =>
            AnyOrderSameResult

C19_Witness ==
    /\ Returns("parseImageMogr2")
    /\ segment = <<"imageMogr2", "/", "format", "/", "webp", "/", "thumbnail", "/",
                   "6", "x", "1", "2">>
    /\ SetDistinctFields(GroupsOf(TokensOf(segment)))
    /\ ret = [format |-> Str(Tok("webp")), width |-> Num(6), height |-> Num(12)]
    /\ parseImageMogr2(<<"thumbnail", "/", "6", "x", "1", "2", "/", "format", "/",
                         "webp">>) = ret

----------------------------------------------------------------------------
(* C20.  Unknown tokens are skipped one at a time: inserting tokens that   *)
(* are not recognised keywords before, between or after the complete       *)
(* keyword groups of a segment does not change the result of               *)
(* parseImageMogr2, and an unknown token never consumes the token that     *)
(* follows it.                                                             *)

\* tokens that are no keyword: a word, a number, the empty token, text that
\* looks like an argument
UnknownTokens ==
    {<<"watermark">>, <<"1">>, <<>>, <<"6", "x", "6">>, <<"webp">>}

\* the groups with the token u put after the first pos of them
InsertedAt(gs, pos, u) ==
    SubSeq(gs, 1, pos) \o <<<<u>>>> \o SubSeq(gs, pos + 1, Len(gs))

C20_UnknownTokensSkipped ==
    (Returns("parseImageMogr2") /\ IsComplete(GroupsOf(TokensOf(segment)))) =>
        LET gs == GroupsOf(TokensOf(segment))
        IN  \A pos \in 0..Len(gs) : \A u \in UnknownTokens :
                parseImageMogr2(SegmentOf(InsertedAt(gs, pos, u))) = ret

C20_Witness ==
    /\ Returns("parseImageMogr2")
    /\ segment = <<"imageMogr2", "/", "watermark", "/", "format", "/", "webp">>
    /\ ret = [format |-> Str(Tok("webp"))]
    /\ parseImageMogr2(<<"watermark", "/", "6", "x", "6", "/", "format", "/", "webp",
                         "/", "1">>) = ret

----------------------------------------------------------------------------
(* C21.  buildImageMogr2 emits exactly one resize token if and only if     *)
(* width or height is present, a value of 0 counting as present:           *)
(* crop/{w}x{h} for cover, and thumbnail/{w}x{h} followed by "!", ">", "<" *)
(* or nothing for force, shrinkOnly, enlargeOnly and fit or unset; a       *)
(* missing dimension is rendered as the empty string in its position.      *)

\* the "/"-separated tokens of a serialization, the namespace prefix left out
BuiltTokens(s) == IF s = <<>> THEN <<>> ELSE Split(SubSeq(s, 3, Len(s)), "/")

\* the positions of the resize keywords among the tokens
ResizeKeywordsAt(toks) == {i \in 1..Len(toks) : toks[i] \in {<<"thumbnail">>, <<"crop">>}}

\* a dimension is present when the field holds a value, 0 included
IsPresent(ops, k) == k \in DOMAIN ops /\ ops[k] # Undefined

\* the argument of the resize token: {w}x{h} and the mark of the mode
ResizeArgument(ops) ==
    (IF IsPresent(ops, "width") THEN NatToString(ops.width.n) ELSE <<>>)
    \o <<"x">>
    \o (IF IsPresent(ops, "height") THEN NatToString(ops.height.n) ELSE <<>>)
    \o (CASE Get(ops, "thumbnailMode") = Str(<<"force">>) -> <<"!">>
          [] Get(ops, "thumbnailMode") = Str(<<"shrinkOnly">>) -> <<">">>
          [] Get(ops, "thumbnailMode") = Str(<<"enlargeOnly">>) -> <<"<">>
          [] OTHER -> <<>>)

C21_OneResizeToken ==
    Returns("buildImageMogr2") =>
        LET toks == BuiltTokens(ret)
            at == ResizeKeywordsAt(toks)
        IN  IF IsPresent(operations, "width") \/ IsPresent(operations, "height")
            THEN /\ at = {1}
                 /\ toks[1] = (IF Get(operations, "thumbnailMode") = Str(<<"cover">>)
                               THEN <<"crop">> ELSE <<"thumbnail">>)
                 /\ toks[2] = ResizeArgument(operations)
            ELSE at = {}

C21_Witness ==
    /\ Returns("buildImageMogr2")
    /\ operations = [width |-> Num(0), thumbnailMode |-> Str(<<"force">>)]
    /\ ret = <<"imageMogr2", "/", "thumbnail", "/", "0", "x", "!">>

----------------------------------------------------------------------------
(* C22.  Whenever parseImageMogr2 recognises a keyword that takes an       *)
(* argument and a following token exists, the scan consumes that token as  *)
(* the argument and resumes after it, so the argument is never itself      *)
(* interpreted as a keyword, even when its value is rejected (flip         *)
(* followed by a value other than vertical or horizontal leaves flip unset *)
(* and still skips the value).                                             *)

\* the loop is at a keyword that takes an argument, and a token follows
AtKeywordWithNext ==
    /\ pc = "loop"
    /\ cursor < Len(ScanParts)
    /\ IsKeyword(ScanParts[cursor], ArgKeywords)

\* the token that follows the cursor is not an accepted value of flip
AtRejectedFlip ==
    /\ AtKeywordWithNext
    /\ ScanParts[cursor] = <<"flip">>
    /\ ScanParts[cursor + 1] \notin {<<"vertical">>, <<"horizontal">>}

C22_ArgumentConsumed ==
    [][/\ AtKeywordWithNext => cursor' = cursor + 2
       /\ AtRejectedFlip => ret' = ret]_vars

\* flip/auto-orient/... : the scan stands behind the rejected value and
\* auto-orient has set nothing
C22_Witness ==
    /\ pc = "loop"
    /\ Len(ScanParts) = 4
    /\ ScanParts[1] = <<"flip">>
    /\ ScanParts[2] = <<"auto-orient">>
    /\ cursor = 3
    /\ ret = EmptyObject

----------------------------------------------------------------------------
(* C23.  The functions are stateless and do not mutate their inputs: no    *)
(* call to isCosUrl, buildImageMogr2, parseImageMogr2, extract, generate   *)
(* or transform changes the operations, options, pipelineSegments or URL   *)
(* passed to it, and the result of a call is determined by its arguments   *)
(* alone.                                                                  *)

\* what the called function returns for the arguments alone
ResultOf ==
    CASE call = "isCosUrl" -> isCosUrl(src)
      [] call = "buildImageMogr2" -> buildImageMogr2(operations)
      [] call = "parseImageMogr2" -> parseImageMogr2(segment)
      [] call = "extract" -> extract(src)
      [] call = "generate" -> generate(src, operations, options, pipelineSegments)
      [] call = "transform" -> transform(src, operations, options)

----------------------------------------------------------------------------
(* C24.  parseImageMogr2 sets ignoreError to true for both spellings       *)
(* "ignore-error" and "ignore-error/1"; the token after ignore-error is    *)
(* consumed only when it is the literal "1", and any other following token *)
(* is scanned as the next keyword (so "ignore-error/rotate/90" sets both   *)
(* ignoreError and rotate).                                                *)

\* the segment imageMogr2/<head>/<tokens>
Prefixed(head, toks) == <<"imageMogr2", "/">> \o head \o <<"/">> \o Join(toks, "/")

C24_IgnoreErrorSpellings ==
    Returns("parseImageMogr2") =>
        LET toks == TokensOf(segment)
            flagged == Assign(ret, "ignoreError", Bool(TRUE))
        IN  /\ segment \in {<<"imageMogr2", "/", "ignore-error">>,
                            <<"imageMogr2", "/", "ignore-error", "/", "1">>} =>
                  ret = [ignoreError |-> Bool(TRUE)]
            /\ toks # <<>> =>
                  \* ignore-error/1 before the tokens: the tokens are read as they are
                  /\ parseImageMogr2(Prefixed(<<"ignore-error", "/", "1">>, toks)) = flagged
                  \* ignore-error before the tokens: the first is taken only if it is 1
                  /\ parseImageMogr2(Prefixed(<<"ignore-error">>, toks)) =
                        IF toks[1] = <<"1">>
                        THEN Assign(parseImageMogr2(Join(Tail(toks), "/")),
                                    "ignoreError", Bool(TRUE))
                        ELSE flagged

C24_Witness ==
    /\ Returns("parseImageMogr2")
    /\ segment = <<"imageMogr2", "/", "ignore-error", "/", "rotate", "/", "-", "6">>
    /\ ret = [ignoreError |-> Bool(TRUE), rotate |-> Num(-6)]

----------------------------------------------------------------------------
(* C25.  Canonical URLs are fixed points of transform: for every matching  *)
(* base URL and Operation Set O over the defined fields,                   *)
(* transform(generate(base, O), {}) with no options equals                 *)
(* generate(base, O); equivalently                                         *)
(* buildImageMogr2(parseImageMogr2(buildImageMogr2(O))) equals             *)
(* buildImageMogr2(O).                                                     *)

C25_CanonicalIsFixedPoint ==
    /\ Returns("buildImageMogr2") =>
          buildImageMogr2(parseImageMogr2(ret)) = ret
    /\ (Returns("generate") /\ IsMatching(src) /\ options = EmptyObject
            /\ pipelineSegments = <<>>) =>
          transform(ret.s, EmptyObject, EmptyObject) = ret

\* every token is written, read back and written again
C25_Witness ==
    /\ Returns("generate")
    /\ IsMatching(src)
    /\ operations = FullOperations
    /\ options = EmptyObject
    /\ RawQuery(ret.s) = buildImageMogr2(FullOperations)
    /\ transform(ret.s, EmptyObject, EmptyObject) = ret

----------------------------------------------------------------------------
(* C26.  The query of every URL returned by transform for a matching URL   *)
(* contains at most one segment beginning with imageMogr2, and when        *)
(* present it is the first segment: all dialect segments of the input are  *)
(* collapsed into one, and foreign segments that preceded a dialect        *)
(* segment in the input follow it in the output.                           *)

\* the positions of the segments of a query that begin with imageMogr2
DialectAt(q) == {i \in 1..Len(SegmentsOf(q)) : IsDialect(SegmentsOf(q)[i])}

----------------------------------------------------------------------------
(* C27.  thumbnailMode has no effect without a dimension: when neither     *)
(* width nor height is present, buildImageMogr2(O) equals                  *)
(* buildImageMogr2(O with thumbnailMode removed), so an Operation Set that *)
(* holds only thumbnailMode serializes to the empty string and generate    *)
(* returns the bare base URL for it.                                       *)

\* the object o without its property k
Without(o, k) == [j \in (DOMAIN o) \ {k} |-> o[j]]

\* o holds thumbnailMode and nothing else
HoldsOnlyMode(o) == DOMAIN Defined(o) = {"thumbnailMode"}

C27_ModeNeedsDimension ==
    /\ (Returns("buildImageMogr2") /\ ~IsPresent(operations, "width")
            /\ ~IsPresent(operations, "height")) =>
          /\ ret = buildImageMogr2(Without(operations, "thumbnailMode"))
          /\ HoldsOnlyMode(operations) => ret = <<>>
    /\ (Returns("generate") /\ IsMatching(src) /\ options = EmptyObject
            /\ pipelineSegments = <<>> /\ HoldsOnlyMode(operations)) =>
          ret = Returned(BaseOf(src))

C27_Witness ==
    /\ Returns("buildImageMogr2")
    /\ operations = [thumbnailMode |-> Str(<<"cover">>), format |-> Str(<<"webp">>)]
    /\ ret = <<"imageMogr2", "/", "format", "/", "webp">>

----------------------------------------------------------------------------
(* C28.  For a matching URL, extract returns null exactly when the decoded *)
(* query string is empty: every non-empty query, including ordinary        *)
(* key=value parameters with no imageMogr2 segment, yields a result whose  *)
(* pipelineSegments hold the non-imageMogr2 segments, so the final check   *)
(* "no dialect segment and no foreign segments" is never satisfied.        *)

\* the query of a URL string after decoding (empty exactly when the raw query
\* is: decoding maps every escape to a character)
DecodedQuery(s) == decodeURIComponent(RawQuery(s)).s

C28_NullExactlyWhenQueryEmpty ==
    (Returns("extract") /\ IsMatching(src)) =>
        IF RawQuery(src) = <<>> THEN ret = Null
        ELSE /\ ret.tag = "ok"
             /\ ret.pipelineSegments = ForeignOf(DecodedQuery(src))

----------------------------------------------------------------------------
(* C29.  Splitting a dialect segment across the pipeline does not change   *)
(* what is extracted: for token chains A and B made of complete keyword    *)
(* groups, extract on a matching URL with query                            *)
(* "imageMogr2/A|imageMogr2/B" returns the same operations as              *)
(* parseImageMogr2("imageMogr2/A/B").                                      *)

\* the dialect segment of a chain of groups
DialectSegment(gs) == <<"imageMogr2", "/">> \o SegmentOf(gs)

\* the matching URL whose query is imageMogr2/A|imageMogr2/B, for A the
\* first k groups and B the others
SplitUrl(gs, k) ==
    Url(CosHost, DialectSegment(SubSeq(gs, 1, k)) \o <<"|">>
                   \o DialectSegment(SubSeq(gs, k + 1, Len(gs))))

----------------------------------------------------------------------------
(* C30.  parseImageMogr2's scan terminates on every finite token sequence: *)
(* the cursor strictly increases at every step, by one for an unknown or   *)
(* argument-less token and by two for a keyword with its argument, each    *)
(* token is visited at most once, and a keyword in last position with no   *)
(* argument sets no field.                                                 *)

\* the token at the cursor takes the token that follows it: a keyword with
\* its argument, or ignore-error with the literal 1
TakesNext ==
    /\ cursor < Len(ScanParts)
    /\ \/ IsKeyword(ScanParts[cursor], ArgKeywords)
       \/ ScanParts[cursor] = <<"ignore-error">> /\ ScanParts[cursor + 1] = <<"1">>

\* one iteration of the loop: a step that stays in the loop
ScanAdvances ==
    (pc = "loop" /\ pc' = "loop") =>
        /\ cursor' = (IF TakesNext THEN cursor + 2 ELSE cursor + 1)
        /\ cursor' <= Len(ScanParts) + 1
        /\ (cursor = Len(ScanParts) /\ IsKeyword(ScanParts[cursor], ArgKeywords)) =>
              ret' = ret

C30_ScanTerminates ==
    /\ <>(pc = "return")
    /\ [][ScanAdvances]_vars

\* format/webp/format has been scanned: the last keyword has set nothing
C30_Witness ==
    /\ pc = "return"
    /\ segment = <<"imageMogr2", "/", "format", "/", "webp", "/", "format">>
    /\ cursor = 4
    /\ ret = [format |-> Str(<<"webp">>)]

====
